---- MODULE Spec2Model ----
(***************************************************************************)
(* Unit converter API: the currency-rate resolution with its process-wide  *)
(* cache (app/converters.py, get_currency_rate), the unit conversions and  *)
(* the HTTP endpoints that wrap them (app/main.py).                        *)
(*                                                                         *)
(* Strings are sequences of one-character strings, so that upper(),        *)
(* lower() and the f-string that builds the cache key are computed.        *)
(* Currency amounts are whole numbers; a rate is a number of thousandths;   *)
(* a converted amount is a number of hundredths (2 decimals). The values   *)
(* of the unit conversions are floats, computed as binary64 computes them. *)
(***************************************************************************)
EXTENDS Integers, Sequences, FiniteSets, TLC

(* ------------------------------ bounds --------------------------------- *)

\* Number of get_currency_rate calls started in one run of the process.
MaxCalls == 3

\* Callers (threads) that may be inside get_currency_rate at the same time.
Callers == {1, 2}

(* --------------------------- program constants ------------------------- *)

\* settings.CURRENCY_API_TIMEOUT
CURRENCY_API_TIMEOUT == 5

(* ------------------------------ strings -------------------------------- *)

\* str.upper() and str.lower(), one character
UpperChar(ch) ==
    CASE ch = "a" -> "A"
      [] ch = "b" -> "B"
      [] ch = "c" -> "C"
      [] ch = "d" -> "D"
      [] ch = "e" -> "E"
      [] ch = "f" -> "F"
      [] ch = "g" -> "G"
      [] ch = "h" -> "H"
      [] ch = "i" -> "I"
      [] ch = "j" -> "J"
      [] ch = "k" -> "K"
      [] ch = "l" -> "L"
      [] ch = "m" -> "M"
      [] ch = "n" -> "N"
      [] ch = "o" -> "O"
      [] ch = "p" -> "P"
      [] ch = "q" -> "Q"
      [] ch = "r" -> "R"
      [] ch = "s" -> "S"
      [] ch = "t" -> "T"
      [] ch = "u" -> "U"
      [] ch = "v" -> "V"
      [] ch = "w" -> "W"
      [] ch = "x" -> "X"
      [] ch = "y" -> "Y"
      [] ch = "z" -> "Z"
      [] OTHER -> ch

LowerChar(ch) ==
    CASE ch = "A" -> "a"
      [] ch = "B" -> "b"
      [] ch = "C" -> "c"
      [] ch = "D" -> "d"
      [] ch = "E" -> "e"
      [] ch = "F" -> "f"
      [] ch = "G" -> "g"
      [] ch = "H" -> "h"
      [] ch = "I" -> "i"
      [] ch = "J" -> "j"
      [] ch = "K" -> "k"
      [] ch = "L" -> "l"
      [] ch = "M" -> "m"
      [] ch = "N" -> "n"
      [] ch = "O" -> "o"
      [] ch = "P" -> "p"
      [] ch = "Q" -> "q"
      [] ch = "R" -> "r"
      [] ch = "S" -> "s"
      [] ch = "T" -> "t"
      [] ch = "U" -> "u"
      [] ch = "V" -> "v"
      [] ch = "W" -> "w"
      [] ch = "X" -> "x"
      [] ch = "Y" -> "y"
      [] ch = "Z" -> "z"
      [] OTHER -> ch

\* str.upper(), str.lower()
\* A variant of Lower that leaves the string as it is written.
Verbatim(s) == s

Upper(s) == [i \in DOMAIN s |-> UpperChar(s[i])]
Lower(s) == [i \in DOMAIN s |-> LowerChar(s[i])]

\* cache_key = f"{from_currency}_{to_currency}"
CacheKey(from, to) == from \o <<"_">> \o to

(* ------------------------------ numbers -------------------------------- *)

\* n / d rounded to the nearest integer, a tie going to the even neighbour
\* (what round() gives on an exactly representable tie).
RoundDiv(n, d) ==
    LET q == n \div d
        r == n % d
    IN  IF 2 * r < d THEN q
        ELSE IF 2 * r > d THEN q + 1
        ELSE IF q % 2 = 0 THEN q ELSE q + 1

\* A rate entry of the provider's rates object: a number (in thousandths)
\* or something that is not a number.
Number(milli) == [kind |-> "number", milli |-> milli]
NotANumber    == [kind |-> "string", milli |-> 0]

\* A variant of RoundedProduct that cuts the product after 2 decimals.
TruncatedProduct(value, rate) == (value * rate.milli) \div 10

\* round(value * rate, 2), in hundredths; rate is a number.
RoundedProduct(value, rate) == RoundDiv(value * rate.milli, 10)

(* ------------------------- binary64 arithmetic ------------------------- *)

\* A Python float is an IEEE 754 binary64: a sign, a significand of
\* MantissaBits bits and a power of two. Every operation gives the exact
\* result rounded to the nearest float, a tie going to the even significand.
\* The exact results are computed on natural numbers of any size, written
\* as sequences of limbs (digits in base Base), the least significant first
\* and no zero on top. Overflow, underflow and subnormal numbers are out of
\* the range of the inputs.
MantissaBits == 53

Base == 2 ^ 15

RECURSIVE SmallBitLen(_)
SmallBitLen(n) == IF n = 0 THEN 0 ELSE 1 + SmallBitLen(n \div 2)

LimbBits == SmallBitLen(Base - 1)

RECURSIVE Limbs(_)
Limbs(n) == IF n = 0 THEN << >> ELSE <<n % Base>> \o Limbs(n \div Base)

RECURSIVE Trim(_)
Trim(a) ==
    IF a # << >> /\ a[Len(a)] = 0 THEN Trim(SubSeq(a, 1, Len(a) - 1)) ELSE a

Limb(a, i) == IF i <= Len(a) THEN a[i] ELSE 0

RECURSIVE AddFrom(_, _, _, _)
AddFrom(a, b, i, carry) ==
    IF i > Len(a) /\ i > Len(b)
    THEN IF carry = 0 THEN << >> ELSE <<carry>>
    ELSE LET s == Limb(a, i) + Limb(b, i) + carry
         IN  <<s % Base>> \o AddFrom(a, b, i + 1, s \div Base)

BigAdd(a, b) == AddFrom(a, b, 1, 0)

\* a - b for a >= b
RECURSIVE SubFrom(_, _, _, _)
SubFrom(a, b, i, borrow) ==
    IF i > Len(a) THEN << >>
    ELSE LET d == a[i] - Limb(b, i) - borrow
         IN  IF d < 0 THEN <<d + Base>> \o SubFrom(a, b, i + 1, 1)
             ELSE <<d>> \o SubFrom(a, b, i + 1, 0)

BigSub(a, b) == Trim(SubFrom(a, b, 1, 0))

\* -1, 0 or 1 as a is below, equal to or above b
RECURSIVE CmpFrom(_, _, _)
CmpFrom(a, b, i) ==
    IF i = 0 THEN 0
    ELSE IF a[i] < b[i] THEN -1
    ELSE IF a[i] > b[i] THEN 1
    ELSE CmpFrom(a, b, i - 1)

BigCmp(a, b) ==
    IF Len(a) < Len(b) THEN -1
    ELSE IF Len(a) > Len(b) THEN 1
    ELSE CmpFrom(a, b, Len(a))

\* a * m for one limb m
RECURSIVE MulSmallFrom(_, _, _, _)
MulSmallFrom(a, m, i, carry) ==
    IF i > Len(a)
    THEN IF carry = 0 THEN << >> ELSE <<carry>>
    ELSE LET p == a[i] * m + carry
         IN  <<p % Base>> \o MulSmallFrom(a, m, i + 1, p \div Base)

MulSmall(a, m) == IF m = 0 THEN << >> ELSE MulSmallFrom(a, m, 1, 0)

\* a * Base
ShiftLimb(a) == IF a = << >> THEN << >> ELSE <<0>> \o a

RECURSIVE BigMul(_, _)
BigMul(a, b) ==
    IF b = << >> THEN << >>
    ELSE BigAdd(MulSmall(a, b[1]), ShiftLimb(BigMul(a, Tail(b))))

BitLen(a) ==
    IF a = << >> THEN 0 ELSE LimbBits * (Len(a) - 1) + SmallBitLen(a[Len(a)])

\* bit i of a, bit 0 the lowest
Bit(a, i) == (Limb(a, (i \div LimbBits) + 1) \div (2 ^ (i % LimbBits))) % 2

\* a * 2^s
RECURSIVE ShiftLimbs(_, _)
ShiftLimbs(a, k) == IF k = 0 THEN a ELSE ShiftLimbs(ShiftLimb(a), k - 1)

Shl(a, s) == ShiftLimbs(MulSmall(a, 2 ^ (s % LimbBits)), s \div LimbBits)

\* a \div m for one limb m, from the top limb down
RECURSIVE DivSmallFrom(_, _, _, _)
DivSmallFrom(a, m, i, rem) ==
    IF i = 0 THEN << >>
    ELSE LET n == rem * Base + a[i]
         IN  DivSmallFrom(a, m, i - 1, n % m) \o <<n \div m>>

\* a \div 2^s
Shr(a, s) ==
    LET k == s \div LimbBits
        b == IF k >= Len(a) THEN << >> ELSE SubSeq(a, k + 1, Len(a))
    IN  Trim(DivSmallFrom(b, 2 ^ (s % LimbBits), Len(b), 0))

\* a % 2^s = 0
LowBitsZero(a, s) ==
    /\ \A i \in 1..(s \div LimbBits) : Limb(a, i) = 0
    /\ Limb(a, (s \div LimbBits) + 1) % (2 ^ (s % LimbBits)) = 0

\* The quotient and the remainder of n by d # 0, one limb of n at a time
\* from the top: each limb of the quotient is the largest digit whose
\* product with d does not exceed the running remainder, found bit by bit.
RECURSIVE QuotDigit(_, _, _, _)
QuotDigit(r, d, q, b) ==
    IF b < 0 THEN q
    ELSE IF BigCmp(MulSmall(d, q + 2 ^ b), r) <= 0
    THEN QuotDigit(r, d, q + 2 ^ b, b - 1)
    ELSE QuotDigit(r, d, q, b - 1)

RECURSIVE DivFrom(_, _, _, _)
DivFrom(n, d, i, r) ==
    IF i = 0 THEN [q |-> << >>, r |-> r]
    ELSE LET r1    == Trim(<<n[i]>> \o r)
             digit == QuotDigit(r1, d, 0, LimbBits - 1)
             rest  == IF digit = 0 THEN DivFrom(n, d, i - 1, r1)
                      ELSE DivFrom(n, d, i - 1, BigSub(r1, MulSmall(d, digit)))
         IN  [q |-> rest.q \o <<digit>>, r |-> rest.r]

BigDivMod(n, d) ==
    LET dm == DivFrom(n, d, Len(n), << >>)
    IN  [q |-> Trim(dm.q), r |-> dm.r]

\* The value of a small number (it fits a machine integer).
RECURSIVE Small(_)
Small(a) == IF a = << >> THEN 0 ELSE a[1] + Base * Small(Tail(a))

\* A float: the value is man * 2^exp, negated if neg; man has exactly
\* MantissaBits bits, or is zero.
Float(neg, man, exp) == [neg |-> neg, man |-> man, exp |-> exp]

FloatZero == Float(FALSE, << >>, 0)

\* The float nearest to n * 2^e, or to a value strictly between n * 2^e and
\* (n + 1) * 2^e if sticky; a tie goes to the even significand.
RoundToFloat(neg, n, e, sticky) ==
    LET s == BitLen(n) - MantissaBits
    IN  IF n = << >> THEN FloatZero
        ELSE IF s <= 0 THEN Float(neg, Shl(n, -s), e + s)
        ELSE LET q    == Shr(n, s)
                 half == Bit(n, s - 1) = 1
                 rest == sticky \/ ~ LowBitsZero(n, s - 1)
                 m    == IF half /\ (rest \/ Bit(q, 0) = 1) THEN BigAdd(q, <<1>>) ELSE q
             IN  IF BitLen(m) > MantissaBits
                 THEN Float(neg, Shr(m, 1), e + s + 1)
                 ELSE Float(neg, m, e + s)

\* x * y
FMul(x, y) ==
    RoundToFloat(x.neg # y.neg, BigMul(x.man, y.man), x.exp + y.exp, FALSE)

\* x / y, y not zero: the quotient of the significands to three bits more
\* than a float holds, the remainder telling whether it is exact.
FDiv(x, y) ==
    LET k  == MantissaBits + 3
        dm == BigDivMod(Shl(x.man, k), y.man)
    IN  RoundToFloat(x.neg # y.neg, dm.q, x.exp - y.exp - k, dm.r # << >>)

\* x + y
FAdd(x, y) ==
    IF x.man = << >> THEN y
    ELSE IF y.man = << >> THEN x
    ELSE LET e == IF x.exp < y.exp THEN x.exp ELSE y.exp
             a == Shl(x.man, x.exp - e)
             b == Shl(y.man, y.exp - e)
             c == BigCmp(a, b)
         IN  IF x.neg = y.neg THEN RoundToFloat(x.neg, BigAdd(a, b), e, FALSE)
             ELSE IF c > 0 THEN RoundToFloat(x.neg, BigSub(a, b), e, FALSE)
             ELSE IF c < 0 THEN RoundToFloat(y.neg, BigSub(b, a), e, FALSE)
             ELSE FloatZero

\* x - y
FSub(x, y) == FAdd(x, [y EXCEPT !.neg = (y.man # << >>) /\ ~ @])

\* float(n) for an integer n
FromInt(n) == RoundToFloat(n < 0, Limbs(IF n < 0 THEN -n ELSE n), 0, FALSE)

\* The float a decimal text stands for, the text being num / den with den a
\* power of ten: the nearest float, which is what the division of the two
\* integers gives.
Decimal(num, den) == FDiv(FromInt(num), FromInt(den))

\* A decimal number as the clients and the tables write it.
Dec(num, den) == [num |-> num, den |-> den]

\* round(x, ndigits): the multiple of 10^-ndigits nearest to the exact
\* value of x, a tie going to the even multiple; the result counts the
\* units of 10^-ndigits.
PyRound(x, ndigits) ==
    LET n == BigMul(x.man, Limbs(10 ^ ndigits))
        s == - x.exp
        q == Shr(n, s)
        half == Bit(n, s - 1) = 1
        rest == ~ LowBitsZero(n, s - 1)
        k == IF s <= 0 THEN Shl(n, x.exp)
             ELSE IF half /\ (rest \/ Bit(q, 0) = 1) THEN BigAdd(q, <<1>>) ELSE q
    IN  IF x.neg THEN - Small(k) ELSE Small(k)

(* ------------------------------ inputs --------------------------------- *)

\* Currency codes as the callers write them (any casing; the request schema
\* takes any string, so a code may hold an underscore).
FromCodes == { <<"u">>, <<"U">>, <<"U", "_", "E">> }
ToCodes   == { <<"e">>, <<"E", "_", "e">> }

\* Amounts passed as value.
Amounts == {1, 100}

\* Rates the provider may quote (0.923 and 3.127), and an entry that is not
\* a number.
RateEntries == { Number(923), Number(3127), NotANumber }

\* The rates objects the provider may send: no code at all, or the one code
\* it offers with any entry.
OfferedCodes == { <<"E">> }
NoRates == [c \in {} |-> NotANumber]
RatesObjects ==
    { NoRates } \cup { [c \in {code} |-> r] : code \in OfferedCodes, r \in RateEntries }

\* What requests.get() can come back with: a timeout, another transport
\* error, or a response with a status and a body. The body is no JSON, a
\* JSON scalar (null), or a JSON object with or without a rates member.
Bodies ==
    { [json |-> "invalid", rates |-> FALSE, table |-> NoRates],
      [json |-> "scalar",  rates |-> FALSE, table |-> NoRates],
      [json |-> "object",  rates |-> FALSE, table |-> NoRates] } \cup
    { [json |-> "object",  rates |-> TRUE,  table |-> t] : t \in RatesObjects }

NoBody == [json |-> "invalid", rates |-> FALSE, table |-> NoRates]

\* A usable body: a rates object quoting the offered code.
UsableBodies ==
    { [json |-> "object", rates |-> TRUE, table |-> [c \in {code} |-> Number(923)]] :
          code \in OfferedCodes }

\* A 200 comes with any body. A 300 (a 3xx that requests does not follow)
\* comes with a usable body or with an object without rates. The body of
\* an error status is never read.
Answers ==
    { [kind |-> "timeout",   status |-> 0, body |-> NoBody],
      [kind |-> "transport", status |-> 0, body |-> NoBody] } \cup
    { [kind |-> "response",  status |-> 200, body |-> b] : b \in Bodies } \cup
    { [kind |-> "response",  status |-> 300, body |-> b] :
          b \in {[json |-> "object", rates |-> FALSE, table |-> NoRates]} \cup UsableBodies } \cup
    { [kind |-> "response",  status |-> 404, body |-> b] : b \in {NoBody} \cup UsableBodies } \cup
    { [kind |-> "response",  status |-> 503, body |-> NoBody] }

NoAnswer == [kind |-> "none", status |-> 0, body |-> NoBody]

\* response.json() on a body that is no JSON raises
\* requests.exceptions.JSONDecodeError (a RequestException) with requests
\* 2.27 and later, and a plain ValueError before; the repository pins no version.
JsonErrors(answer) ==
    IF answer.kind = "response" /\ answer.body.json = "invalid"
    THEN {"requests.JSONDecodeError", "ValueError"}
    ELSE {"requests.JSONDecodeError"}

(* ----------------------------- exceptions ------------------------------ *)

\* A message is the sequence of the pieces an f-string puts together: a
\* literal, a formatted code, or a formatted number.
Lit(text)  == [lit |-> text, code |-> << >>, num |-> 0]
Code(code) == [lit |-> "",   code |-> code,  num |-> 0]
Num(n)     == [lit |-> "",   code |-> << >>, num |-> n]

\* An exception: its class and str(e).
Exc(type, msg) == [type |-> type, msg |-> msg]

NoExc == Exc("", << >>)

\* The class hierarchy of requests.exceptions, as far as the handlers of
\* get_currency_rate test it.
IsTimeout(e) == e.type = "requests.Timeout"

IsRequestException(e) ==
    e.type \in { "requests.Timeout", "requests.ConnectionError",
                 "requests.HTTPError", "requests.JSONDecodeError" }

\* response.raise_for_status(): an HTTPError for a 4xx or 5xx status only.
RaisesForStatus(status) == 400 <= status /\ status < 600

\* The outcome of a call: a returned amount (hundredths) or a raised exception.
Returned(amount) == [kind |-> "return", amount |-> amount, exc |-> NoExc]
Raised(e)        == [kind |-> "raise",  amount |-> 0,      exc |-> e]
NoOutcome        == [kind |-> "none",   amount |-> 0,      exc |-> NoExc]

(* --------------------------- get_currency_rate ------------------------- *)

TimeoutHead    == Lit("Currency API timeout after ")
RequestHead    == Lit("Currency API request failed: ")
ConversionHead == Lit("Currency conversion failed: ")

\* Variants of Handle: the RequestException clause placed before the
\* Timeout clause; the last clause raising without str(e); the last clause
\* re-raising what it caught.
HandleRequestFirst(e) ==
    IF IsRequestException(e)
    THEN Exc("Exception", <<RequestHead>> \o e.msg)
    ELSE Exc("Exception", <<ConversionHead>> \o e.msg)

HandleWithoutCause(e) ==
    IF IsTimeout(e)
    THEN Exc("Exception", <<TimeoutHead, Num(CURRENCY_API_TIMEOUT), Lit("s")>>)
    ELSE IF IsRequestException(e)
    THEN Exc("Exception", <<RequestHead>> \o e.msg)
    ELSE Exc("Exception", <<ConversionHead>>)

HandleReraising(e) ==
    IF IsTimeout(e)
    THEN Exc("Exception", <<TimeoutHead, Num(CURRENCY_API_TIMEOUT), Lit("s")>>)
    ELSE IF IsRequestException(e)
    THEN Exc("Exception", <<RequestHead>> \o e.msg)
    ELSE e

\* The except clauses, in their order: Timeout, RequestException, Exception.
\* Each raises a plain Exception whose message starts with its own head.
Handle(e) ==
    IF IsTimeout(e)
    THEN Exc("Exception", <<TimeoutHead, Num(CURRENCY_API_TIMEOUT), Lit("s")>>)
    ELSE IF IsRequestException(e)
    THEN Exc("Exception", <<RequestHead>> \o e.msg)
    ELSE Exc("Exception", <<ConversionHead>> \o e.msg)

\* The body of the try block, for one answer of the provider: what it
\* raises, if anything, and the rate it stores before the final round().
\* store is FALSE when the block raises before the rate is cached.
TryBlock(value, to, answer, jsonError) ==
    LET body == answer.body
        none == [raises |-> FALSE, e |-> NoExc, store |-> FALSE, rate |-> NotANumber]
        fail(e) == [none EXCEPT !.raises = TRUE, !.e = e]
    IN  IF answer.kind = "timeout"
        THEN fail(Exc("requests.Timeout", <<Lit("timed out")>>))
        ELSE IF answer.kind = "transport"
        THEN fail(Exc("requests.ConnectionError", <<Lit("connection failed")>>))
        ELSE IF RaisesForStatus(answer.status)
        THEN fail(Exc("requests.HTTPError", <<Num(answer.status), Lit(" Error")>>))
        ELSE IF body.json = "invalid"
        THEN fail(Exc(jsonError, <<Lit("Expecting value")>>))
        ELSE IF body.json = "scalar"
        THEN fail(Exc("TypeError", <<Lit("argument is not iterable")>>))
        ELSE IF ~ body.rates
        THEN fail(Exc("Exception", <<Lit("Invalid API response format")>>))
        ELSE IF to \notin DOMAIN body.table
        THEN fail(Exc("ValueError",
                      <<Lit("Currency '"), Code(to), Lit("' not found in exchange rates")>>))
        ELSE LET rate == body.table[to]
             IN  IF rate.kind # "number"
                 THEN [raises |-> TRUE,
                       e |-> Exc("TypeError", <<Lit("unsupported operand type(s)")>>),
                       store |-> TRUE, rate |-> rate]
                 ELSE [raises |-> FALSE, e |-> NoExc, store |-> TRUE, rate |-> rate]

(* ------------------------------- state --------------------------------- *)

VARIABLES
    _CURRENCY_CACHE,  \* the module-level dict: cache key -> rate entry
    pc,               \* per caller: "idle", or "waiting" inside requests.get()
    frame,            \* per caller: the locals of its call in progress
    last,             \* the request that completed last: arguments, provider
                      \* answer, outcome of the conversion, HTTP response
    requests,         \* per normalized pair: provider requests issued so far
    writes,           \* per cache key: assignments to _CURRENCY_CACHE[key] so far
    served,           \* per cache key: the rate entries the provider returned for it
    succeeded,        \* the normalized pairs for which a call has returned
    calls,            \* calls of get_currency_rate started so far
    factors           \* the module-level dicts LENGTH_FACTORS and WEIGHT_FACTORS
                      \* as the process holds them

vars == << _CURRENCY_CACHE, pc, frame, last, requests, writes, served, succeeded, calls,
           factors >>

(* ------------------- length, weight and temperature -------------------- *)

\* One entry of a factor table: the unit and its factor num/den to the base
\* unit (1609.34 is 160934/100).
Unit(name, num, den) == [unit |-> name, num |-> num, den |-> den]

\* LENGTH_FACTORS and WEIGHT_FACTORS, in declaration order.
LENGTH_FACTORS ==
    << Unit(<<"m", "e", "t", "e", "r">>, 1, 1),
       Unit(<<"k", "i", "l", "o", "m", "e", "t", "e", "r">>, 1000, 1),
       Unit(<<"c", "e", "n", "t", "i", "m", "e", "t", "e", "r">>, 1, 100),
       Unit(<<"m", "i", "l", "l", "i", "m", "e", "t", "e", "r">>, 1, 1000),
       Unit(<<"m", "i", "l", "e">>, 160934, 100),
       Unit(<<"y", "a", "r", "d">>, 9144, 10000),
       Unit(<<"f", "o", "o", "t">>, 3048, 10000),
       Unit(<<"i", "n", "c", "h">>, 254, 10000) >>

WEIGHT_FACTORS ==
    << Unit(<<"k", "i", "l", "o", "g", "r", "a", "m">>, 1, 1),
       Unit(<<"g", "r", "a", "m">>, 1, 1000),
       Unit(<<"m", "i", "l", "l", "i", "g", "r", "a", "m">>, 1, 1000000),
       Unit(<<"p", "o", "u", "n", "d">>, 453592, 1000000),
       Unit(<<"o", "u", "n", "c", "e">>, 283495, 10000000),
       Unit(<<"t", "o", "n">>, 1000, 1) >>

\* A variant of UnitNames that lists the keys backwards.
UnitNamesReversed(table) == [i \in DOMAIN table |-> table[Len(table) + 1 - i].unit]

\* table.keys(), in declaration order, and the membership test.
UnitNames(table) == [i \in DOMAIN table |-> table[i].unit]
HasUnit(table, name) == \E i \in DOMAIN table : table[i].unit = name
Factor(table, name) == table[CHOOSE i \in DOMAIN table : table[i].unit = name]

\* ', '.join(names)
RECURSIVE Join(_)
Join(names) ==
    IF Len(names) = 0 THEN << >>
    ELSE IF Len(names) = 1 THEN <<Code(names[1])>>
    ELSE <<Code(names[1]), Lit(", ")>> \o Join(Tail(names))

\* f"Invalid source unit '{from_unit}'. Supported: {', '.join(...)}"
InvalidUnit(side, name, names) ==
    Exc("ValueError",
        <<Lit("Invalid "), Lit(side), Lit(" unit '"), Code(name), Lit("'. Supported: ")>>
            \o Join(names))

\* A variant of Rescale that rounds to 3 decimals.
RescaleCoarse(table, value, from, to) ==
    LET base   == FMul(value, Decimal(Factor(table, from).num, Factor(table, from).den))
        result == FDiv(base, Decimal(Factor(table, to).num, Factor(table, to).den))
    IN  1000 * PyRound(result, 3)

\* A variant of Rescale with the two factors exchanged.
RescaleInverse(table, value, from, to) ==
    LET base   == FMul(value, Decimal(Factor(table, to).num, Factor(table, to).den))
        result == FDiv(base, Decimal(Factor(table, from).num, Factor(table, from).den))
    IN  PyRound(result, 6)

\* value * factor[from] / factor[to], then round(result, 6): the product
\* first, then the quotient, each a float operation; the factors are the
\* floats their decimal texts stand for. The result counts millionths.
Rescale(table, value, from, to) ==
    LET base   == FMul(value, Decimal(Factor(table, from).num, Factor(table, from).den))
        result == FDiv(base, Decimal(Factor(table, to).num, Factor(table, to).den))
    IN  PyRound(result, 6)

\* convert_length and convert_weight: lower-case both units, reject a unit
\* that is no key of the table (the source first), convert and round. The
\* value is the decimal number the caller wrote; the function gets the
\* float it stands for.
ConvertWith(table, value, from_unit, to_unit) ==
    LET from == Lower(from_unit)
        to   == Lower(to_unit)
    IN  IF ~ HasUnit(table, from)
        THEN Raised(InvalidUnit("source", from, UnitNames(table)))
        ELSE IF ~ HasUnit(table, to)
        THEN Raised(InvalidUnit("target", to, UnitNames(table)))
        ELSE Returned(Rescale(table, Decimal(value.num, value.den), from, to))

convert_length(value, from_unit, to_unit) ==
    ConvertWith(factors.length, value, from_unit, to_unit)

convert_weight(value, from_unit, to_unit) ==
    ConvertWith(factors.weight, value, from_unit, to_unit)

CELSIUS    == <<"c", "e", "l", "s", "i", "u", "s">>
FAHRENHEIT == <<"f", "a", "h", "r", "e", "n", "h", "e", "i", "t">>
KELVIN     == <<"k", "e", "l", "v", "i", "n">>

\* valid_units is a set of strings: the order in which join() walks it
\* changes from one process to the next (string hashing is randomised).
valid_units == { CELSIUS, FAHRENHEIT, KELVIN }
UnitOrders ==
    { o \in [1..3 -> valid_units] : \A i, j \in 1..3 : i # j => o[i] # o[j] }

\* 273.15, and an integer of a formula as the float it is turned into
KelvinOffset == Decimal(27315, 100)
Whole(n) == FromInt(n)

\* A variant of TemperatureFormula whose Fahrenheit formulas leave out the
\* offset of 32.
TemperatureFormulaWithoutOffset(value, from, to) ==
    IF from = CELSIUS
    THEN IF to = FAHRENHEIT
         THEN FDiv(FMul(value, Whole(9)), Whole(5))
         ELSE FAdd(value, KelvinOffset)
    ELSE IF from = FAHRENHEIT
    THEN IF to = CELSIUS
         THEN FDiv(FMul(value, Whole(5)), Whole(9))
         ELSE FAdd(FDiv(FMul(value, Whole(5)), Whole(9)), KelvinOffset)
    ELSE IF to = CELSIUS
         THEN FSub(value, KelvinOffset)
         ELSE FDiv(FMul(FSub(value, KelvinOffset), Whole(9)), Whole(5))

\* The formulas of convert_temperature on floats, each operation in the
\* order Python evaluates it: (value * 9/5) + 32 is ((value * 9) / 5) + 32.
TemperatureFormula(value, from, to) ==
    IF from = CELSIUS
    THEN IF to = FAHRENHEIT
         THEN FAdd(FDiv(FMul(value, Whole(9)), Whole(5)), Whole(32))
         ELSE FAdd(value, KelvinOffset)
    ELSE IF from = FAHRENHEIT
    THEN IF to = CELSIUS
         THEN FDiv(FMul(FSub(value, Whole(32)), Whole(5)), Whole(9))
         ELSE FAdd(FDiv(FMul(FSub(value, Whole(32)), Whole(5)), Whole(9)), KelvinOffset)
    ELSE IF to = CELSIUS
         THEN FSub(value, KelvinOffset)
         ELSE FAdd(FDiv(FMul(FSub(value, KelvinOffset), Whole(9)), Whole(5)), Whole(32))

\* A variant of convert_temperature without the same-unit return: the
\* request falls into the else branch of its source unit.
convert_temperature_formula_always(value, from_unit, to_unit, order) ==
    LET from == Lower(from_unit)
        to   == Lower(to_unit)
    IN  IF from \notin valid_units
        THEN Raised(InvalidUnit("source", from, order))
        ELSE IF to \notin valid_units
        THEN Raised(InvalidUnit("target", to, order))
        ELSE Returned(PyRound(TemperatureFormula(Decimal(value.num, value.den), from, to), 2))

\* convert_temperature: the result counts hundredths of a degree.
convert_temperature(value, from_unit, to_unit, order) ==
    LET from == Lower(from_unit)
        to   == Lower(to_unit)
    IN  IF from \notin valid_units
        THEN Raised(InvalidUnit("source", from, order))
        ELSE IF to \notin valid_units
        THEN Raised(InvalidUnit("target", to, order))
        ELSE IF from = to
        THEN Returned(PyRound(Decimal(value.num, value.den), 2))
        ELSE Returned(PyRound(TemperatureFormula(Decimal(value.num, value.den), from, to), 2))

\* The requests the clients send to the three endpoints of the server.
Req(value, from_unit, to_unit) == [value |-> value, from |-> from_unit, to |-> to_unit]

LengthRequests ==
    { Req(Dec(1000, 1), <<"m", "e", "t", "e", "r">>, <<"k", "i", "l", "o", "m", "e", "t", "e", "r">>),
      Req(Dec(1, 1),    <<"M", "E", "T", "E", "R">>, <<"F", "o", "o", "t">>),
      Req(Dec(100, 1),  <<"i", "n", "v", "a", "l", "i", "d">>, <<"m", "e", "t", "e", "r">>),
      Req(Dec(1, 1),    <<"m", "e", "t", "e", "r">>, <<"g", "r", "a", "m">>) }

WeightRequests ==
    { Req(Dec(1000, 1), <<"g", "r", "a", "m">>, <<"k", "i", "l", "o", "g", "r", "a", "m">>),
      Req(Dec(1, 1),    <<"P", "o", "u", "n", "d">>, <<"K", "I", "L", "O", "G", "R", "A", "M">>),
      Req(Dec(100, 1),  <<"k", "i", "l", "o", "g", "r", "a", "m">>, <<"i", "n", "v", "a", "l", "i", "d">>) }

TemperatureRequests ==
    { Req(Dec(0, 1),        <<"c", "e", "l", "s", "i", "u", "s">>, <<"f", "a", "h", "r", "e", "n", "h", "e", "i", "t">>),
      Req(Dec(21456, 1000), <<"K", "E", "L", "V", "I", "N">>, <<"k", "e", "l", "v", "i", "n">>),
      Req(Dec(0, 1),        <<"c", "e", "l", "s", "i", "u", "s">>, <<"i", "n", "v", "a", "l", "i", "d">>) }

\* The calls made on the conversion functions alone. Every pair of units
\* of a table is tried with a small amount (the millionths of a result fit
\* a machine integer), every unit against itself with an amount that has
\* seven decimals, and then the amounts and casings of the test suite and
\* names no table holds.
UnitPairs(table) == { <<table[i].unit, table[j].unit>> : i, j \in DOMAIN table }

METER      == <<"m", "e", "t", "e", "r">>
KILOMETER  == <<"k", "i", "l", "o", "m", "e", "t", "e", "r">>
CENTIMETER == <<"c", "e", "n", "t", "i", "m", "e", "t", "e", "r">>
MILLIMETER == <<"m", "i", "l", "l", "i", "m", "e", "t", "e", "r">>
MILE       == <<"m", "i", "l", "e">>
YARD       == <<"y", "a", "r", "d">>
FOOT       == <<"f", "o", "o", "t">>
INCH       == <<"i", "n", "c", "h">>
KILOGRAM   == <<"k", "i", "l", "o", "g", "r", "a", "m">>
GRAM       == <<"g", "r", "a", "m">>
MILLIGRAM  == <<"m", "i", "l", "l", "i", "g", "r", "a", "m">>
POUND      == <<"p", "o", "u", "n", "d">>
OUNCE      == <<"o", "u", "n", "c", "e">>
TON        == <<"t", "o", "n">>
INVALID_UNIT == <<"i", "n", "v", "a", "l", "i", "d", "_", "u", "n", "i", "t">>

LengthInputs ==
    { Req(Dec(1, 1000), p[1], p[2]) : p \in UnitPairs(LENGTH_FACTORS) } \cup
    { Req(Dec(15, 10000000), p[1], p[2]) : p \in { q \in UnitPairs(LENGTH_FACTORS) : q[1] = q[2] } } \cup
    { Req(Dec(1000, 1), METER, KILOMETER),
      Req(Dec(1, 1), KILOMETER, METER),
      Req(Dec(1, 1), FOOT, METER),
      Req(Dec(1, 1), METER, FOOT),
      Req(Dec(1, 1), INCH, CENTIMETER),
      Req(Dec(1, 1), MILE, KILOMETER),
      Req(Dec(100, 1), METER, METER),
      Req(Dec(1, 1), MILLIMETER, MILE),
      Req(Dec(1, 1), METER, KILOMETER),
      Req(Dec(1, 1), Upper(METER), Upper(KILOMETER)),
      Req(Dec(1, 1), <<"F", "o", "o", "t">>, <<"m", "E", "t", "E", "r">>),
      Req(Dec(1, 1), INVALID_UNIT, METER),
      Req(Dec(1, 1), METER, INVALID_UNIT),
      Req(Dec(1, 1), GRAM, INVALID_UNIT) }

WeightInputs ==
    { Req(Dec(1, 1000000), p[1], p[2]) : p \in UnitPairs(WEIGHT_FACTORS) } \cup
    { Req(Dec(1000, 1), GRAM, KILOGRAM),
      Req(Dec(1, 1), KILOGRAM, GRAM),
      Req(Dec(1, 1), POUND, KILOGRAM),
      Req(Dec(1, 1), TON, KILOGRAM),
      Req(Dec(50, 1), KILOGRAM, KILOGRAM),
      Req(Dec(1, 1), Upper(KILOGRAM), Upper(GRAM)),
      Req(Dec(1, 1), INVALID_UNIT, KILOGRAM),
      Req(Dec(1, 1), KILOGRAM, INVALID_UNIT),
      Req(Dec(1, 1), METER, KILOGRAM) }

TemperatureInputs ==
    { Req(v, a, b) :
        v \in { Dec(0, 1), Dec(-40, 1), Dec(27315, 100), Dec(100, 1), Dec(2675, 1000),
                Dec(5, 1000), Dec(366, 10) },
        a \in valid_units, b \in valid_units } \cup
    { Req(Dec(0, 1), Upper(CELSIUS), Upper(FAHRENHEIT)),
      Req(Dec(0, 1), INVALID_UNIT, CELSIUS),
      Req(Dec(0, 1), CELSIUS, INVALID_UNIT) }

\* The walk of valid_units shows only in the message for an invalid unit.
OrdersFor(r) ==
    IF Lower(r.from) \in valid_units /\ Lower(r.to) \in valid_units
    THEN { <<CELSIUS, FAHRENHEIT, KELVIN>> }
    ELSE UnitOrders

(* ----------------------------- endpoints -------------------------------- *)

\* An HTTP response: the status and, for an error, the detail (str(e)).
Response(status, detail) == [status |-> status, detail |-> detail]

NoResponse == Response(0, << >>)

\* convert_length_endpoint, convert_weight_endpoint and
\* convert_temperature_endpoint: a ValueError becomes a 400 with its
\* message; any other exception is left to the framework (a 500).
UnitEndpoint(ret) ==
    IF ret.kind = "return" THEN Response(200, << >>)
    ELSE IF ret.exc.type = "ValueError" THEN Response(400, ret.exc.msg)
    ELSE Response(500, <<Lit("Internal Server Error")>>)

\* A variant of CurrencyEndpoint that answers 400 when the cause is a
\* currency that was not found.
CurrencyEndpointNotFound400(ret) ==
    IF ret.kind = "return" THEN Response(200, << >>)
    ELSE IF \E i \in DOMAIN ret.exc.msg : ret.exc.msg[i] = Lit("Currency '")
    THEN Response(400, ret.exc.msg)
    ELSE Response(500, ret.exc.msg)

\* convert_currency_endpoint: every exception becomes a 500 with its message.
CurrencyEndpoint(ret) ==
    IF ret.kind = "return" THEN Response(200, << >>)
    ELSE Response(500, ret.exc.msg)

(* --------------------------- initial state ----------------------------- *)

Pairs == { <<Upper(f), Upper(t)>> : f \in FromCodes, t \in ToCodes }
Keys  == { CacheKey(p[1], p[2]) : p \in Pairs }

NoFrame == [value |-> 0, from |-> << >>, to |-> << >>, key |-> << >>, nreq |-> 0]

Done(op, value, from, to, hit, nreq, answer, ret, response) ==
    [op |-> op, value |-> value, from |-> from, to |-> to, hit |-> hit, nreq |-> nreq,
     answer |-> answer, ret |-> ret, response |-> response]

Init ==
    /\ _CURRENCY_CACHE = [k \in {} |-> NotANumber]
    /\ pc = [c \in Callers |-> "idle"]
    /\ frame = [c \in Callers |-> NoFrame]
    /\ last = Done("none", 0, << >>, << >>, FALSE, 0, NoAnswer, NoOutcome, NoResponse)
    /\ requests = [p \in Pairs |-> 0]
    /\ writes = [k \in Keys |-> 0]
    /\ served = [k \in Keys |-> {}]
    /\ succeeded = {}
    /\ calls = 0
    /\ factors = [length |-> LENGTH_FACTORS, weight |-> WEIGHT_FACTORS]

\* Variants: a lookup that never finds the key; a store that keeps only
\* the newest entry; a store that rounds the rate to 2 decimals first.
InCacheNever(key) == FALSE

StoreAlone(key, rate) == [k \in {key} |-> rate]

StoreRounded(key, rate) ==
    [k \in DOMAIN _CURRENCY_CACHE \cup {key} |->
        IF k = key THEN [rate EXCEPT !.milli = 10 * RoundDiv(@, 10)]
        ELSE _CURRENCY_CACHE[k]]

\* if cache_key in _CURRENCY_CACHE
InCache(key) == key \in DOMAIN _CURRENCY_CACHE

\* _CURRENCY_CACHE[cache_key] = rate
Store(key, rate) ==
    [k \in DOMAIN _CURRENCY_CACHE \cup {key} |->
        IF k = key THEN rate ELSE _CURRENCY_CACHE[k]]

\* round(value * rate, 2) with whatever rate is: a TypeError when it is no number.
Scale(value, rate) ==
    IF rate.kind = "number"
    THEN Returned(RoundedProduct(value, rate))
    ELSE Raised(Exc("TypeError", <<Lit("unsupported operand type(s)")>>))

\* get_currency_rate up to the provider request: normalise the codes, build
\* the key, answer from the cache on a hit, else issue the one request and
\* block in requests.get().
Call(c, value, from_currency, to_currency) ==
    LET from == Upper(from_currency)
        to   == Upper(to_currency)
        key  == CacheKey(from, to)
    IN  /\ pc[c] = "idle"
        /\ calls < MaxCalls
        /\ calls' = calls + 1
        /\ IF InCache(key)
           THEN LET ret == Scale(value, _CURRENCY_CACHE[key])
                IN  /\ last' = Done("currency", value, from, to, TRUE, 0, NoAnswer,
                                    ret, CurrencyEndpoint(ret))
                    /\ succeeded' = IF ret.kind = "return"
                                    THEN succeeded \cup {<<from, to>>} ELSE succeeded
                    /\ UNCHANGED << pc, frame, requests >>
           ELSE /\ pc' = [pc EXCEPT ![c] = "waiting"]
                /\ frame' = [frame EXCEPT ![c] =
                       [value |-> value, from |-> from, to |-> to, key |-> key, nreq |-> 1]]
                /\ requests' = [requests EXCEPT ![<<from, to>>] = @ + 1]
                /\ UNCHANGED << last, succeeded >>
        /\ UNCHANGED << _CURRENCY_CACHE, writes, served, factors >>

\* A variant of Respond that asks the provider again when the attempt
\* failed, instead of raising.
RespondRetrying(c, answer, jsonError) ==
    LET f == frame[c]
        t == TryBlock(f.value, f.to, answer, jsonError)
        ret == IF t.raises THEN Raised(Handle(t.e)) ELSE Scale(f.value, t.rate)
    IN  /\ pc[c] = "waiting"
        /\ _CURRENCY_CACHE' = IF t.store THEN Store(f.key, t.rate) ELSE _CURRENCY_CACHE
        /\ writes' = IF t.store THEN [writes EXCEPT ![f.key] = @ + 1] ELSE writes
        /\ served' = IF t.store THEN [served EXCEPT ![f.key] = @ \cup {t.rate}] ELSE served
        /\ IF ret.kind = "raise" /\ f.nreq < 2
           THEN /\ frame' = [frame EXCEPT ![c].nreq = @ + 1]
                /\ requests' = [requests EXCEPT ![<<f.from, f.to>>] = @ + 1]
                /\ UNCHANGED << pc, last, succeeded >>
           ELSE /\ pc' = [pc EXCEPT ![c] = "idle"]
                /\ frame' = [frame EXCEPT ![c] = NoFrame]
                /\ last' = Done("currency", f.value, f.from, f.to, FALSE, f.nreq, answer,
                                ret, CurrencyEndpoint(ret))
                /\ succeeded' = IF ret.kind = "return"
                                THEN succeeded \cup {<<f.from, f.to>>} ELSE succeeded
                /\ UNCHANGED requests
        /\ UNCHANGED << calls, factors >>

\* get_currency_rate from the provider's answer on: the rest of the try
\* block and the except clauses (each raises; none asks again), then the
\* endpoint's mapping of the outcome.
Respond(c, answer, jsonError) ==
    LET f == frame[c]
        t == TryBlock(f.value, f.to, answer, jsonError)
        ret == IF t.raises THEN Raised(Handle(t.e)) ELSE Scale(f.value, t.rate)
    IN  /\ pc[c] = "waiting"
        /\ pc' = [pc EXCEPT ![c] = "idle"]
        /\ frame' = [frame EXCEPT ![c] = NoFrame]
        /\ _CURRENCY_CACHE' = IF t.store THEN Store(f.key, t.rate) ELSE _CURRENCY_CACHE
        /\ writes' = IF t.store THEN [writes EXCEPT ![f.key] = @ + 1] ELSE writes
        /\ served' = IF t.store THEN [served EXCEPT ![f.key] = @ \cup {t.rate}] ELSE served
        /\ last' = Done("currency", f.value, f.from, f.to, FALSE, f.nreq, answer,
                        ret, CurrencyEndpoint(ret))
        /\ succeeded' = IF ret.kind = "return"
                        THEN succeeded \cup {<<f.from, f.to>>} ELSE succeeded
        /\ UNCHANGED << requests, calls, factors >>

\* POST /convert/length, /convert/weight, /convert/temperature: the pure
\* conversion and the endpoint's mapping of its outcome. The event loop runs
\* a handler only when no other handler is running.
NoHandlerRunning == \A c \in Callers : pc[c] = "idle"

\* A variant of convert_length_endpoint that keeps what it computed in the
\* module's cache.
convert_length_endpoint_caching(r) ==
    \E ret \in {convert_length(r.value, r.from, r.to)} :
        /\ NoHandlerRunning
        /\ last' = Done("length", r.value, Lower(r.from), Lower(r.to), FALSE, 0,
                        NoAnswer, ret, UnitEndpoint(ret))
        /\ _CURRENCY_CACHE' =
              [k \in DOMAIN _CURRENCY_CACHE \cup {CacheKey(Lower(r.from), Lower(r.to))} |->
                  IF k = CacheKey(Lower(r.from), Lower(r.to)) THEN Number(ret.amount)
                  ELSE _CURRENCY_CACHE[k]]
        /\ UNCHANGED << pc, frame, requests, writes, served, succeeded, calls, factors >>

convert_length_endpoint(r) ==
    \E ret \in {convert_length(r.value, r.from, r.to)} :
        /\ NoHandlerRunning
        /\ last' = Done("length", r.value, Lower(r.from), Lower(r.to), FALSE, 0,
                        NoAnswer, ret, UnitEndpoint(ret))
        /\ UNCHANGED << _CURRENCY_CACHE, pc, frame, requests, writes, served,
                        succeeded, calls, factors >>

convert_weight_endpoint(r) ==
    \E ret \in {convert_weight(r.value, r.from, r.to)} :
        /\ NoHandlerRunning
        /\ last' = Done("weight", r.value, Lower(r.from), Lower(r.to), FALSE, 0,
                        NoAnswer, ret, UnitEndpoint(ret))
        /\ UNCHANGED << _CURRENCY_CACHE, pc, frame, requests, writes, served,
                        succeeded, calls, factors >>

convert_temperature_endpoint(r, order) ==
    \E ret \in {convert_temperature(r.value, r.from, r.to, order)} :
        /\ NoHandlerRunning
        /\ last' = Done("temperature", r.value, Lower(r.from), Lower(r.to), FALSE, 0,
                        NoAnswer, ret, UnitEndpoint(ret))
        /\ UNCHANGED << _CURRENCY_CACHE, pc, frame, requests, writes, served,
                        succeeded, calls, factors >>

\* settings.API_TITLE and settings.API_VERSION: the defaults of Settings,
\* which hold unless the environment of the process sets them.
API_TITLE   == "Unit Converter API"
API_VERSION == "1.1.0"

\* GET /: the body root() returns, with status 200.
root ==
    /\ NoHandlerRunning
    /\ last' = Done("root", 0, << >>, << >>, FALSE, 0, NoAnswer, NoOutcome,
                    Response(200, [message       |-> API_TITLE,
                                   version       |-> API_VERSION,
                                   documentation |-> "/docs",
                                   health        |-> "/health",
                                   metrics       |-> "/metrics"]))
    /\ UNCHANGED << _CURRENCY_CACHE, pc, frame, requests, writes, served,
                    succeeded, calls, factors >>

(* ---------------------------- specifications ---------------------------- *)

\* Threads calling get_currency_rate at the same time. A new call takes the
\* lowest idle caller; each caller converts its own amount.
AmountsOf(c) == IF c = 1 THEN {100} ELSE {1}

Next ==
    \/ \E c \in Callers, f \in FromCodes, t \in ToCodes : \E v \in AmountsOf(c) :
          /\ \A d \in Callers : d < c => pc[d] = "waiting"
          /\ Call(c, v, f, t)
    \/ \E c \in Callers, a \in Answers : \E j \in JsonErrors(a) : Respond(c, a, j)

Spec == Init /\ [][Next]_vars

\* The server: the endpoints are coroutines that never await, and
\* requests.get() blocks the event loop, so the requests are handled one
\* after the other by the one caller. The unit endpoints and the root
\* endpoint neither read nor write what the currency calls share, so their
\* requests are taken first.
NextServer ==
    \/ \E v \in Amounts, f \in FromCodes, t \in ToCodes : Call(1, v, f, t)
    \/ \E a \in Answers : \E j \in JsonErrors(a) : Respond(1, a, j)
    \/ calls = 0 /\ \E r \in LengthRequests : convert_length_endpoint(r)
    \/ calls = 0 /\ \E r \in WeightRequests : convert_weight_endpoint(r)
    \/ calls = 0 /\ \E r \in TemperatureRequests :
          \E o \in OrdersFor(r) : convert_temperature_endpoint(r, o)
    \/ calls = 0 /\ root

SpecServer == Init /\ [][NextServer]_vars

\* The conversion functions on their own: a client sends one request, and
\* then sends a length it got back the other way, as often as it likes.
NextUnits ==
    \/ last.op = "none" /\ \E r \in LengthInputs : convert_length_endpoint(r)
    \/ last.op = "none" /\ \E r \in WeightInputs : convert_weight_endpoint(r)
    \/ last.op = "none" /\ \E r \in TemperatureInputs :
          \E o \in OrdersFor(r) : convert_temperature_endpoint(r, o)
    \/ /\ last.op = "length"
       /\ last.ret.kind = "return"
       /\ convert_length_endpoint(Req(Dec(last.ret.amount, 1000000), last.to, last.from))

SpecUnits == Init /\ [][NextUnits]_vars

\* The server with unit and currency requests in any order: the requests
\* for one pair of codes, answered with a rate or not at all, and between
\* them one good and one refused request for each unit endpoint.
MixedLengthRequests ==
    { Req(Dec(1000, 1), METER, KILOMETER), Req(Dec(1, 1), INVALID_UNIT, METER) }

MixedWeightRequests ==
    { Req(Dec(1000, 1), GRAM, KILOGRAM), Req(Dec(1, 1), KILOGRAM, INVALID_UNIT) }

MixedTemperatureRequests ==
    { Req(Dec(0, 1), CELSIUS, FAHRENHEIT), Req(Dec(0, 1), CELSIUS, CELSIUS),
      Req(Dec(0, 1), CELSIUS, INVALID_UNIT) }

MixedAnswers ==
    { [kind |-> "timeout", status |-> 0, body |-> NoBody] } \cup
    { [kind |-> "response", status |-> 200, body |-> b] : b \in UsableBodies }

NextMixed ==
    \/ \E v \in Amounts : Call(1, v, <<"U">>, <<"e">>)
    \/ \E a \in MixedAnswers : \E j \in JsonErrors(a) : Respond(1, a, j)
    \/ NoHandlerRunning /\ \E r \in MixedLengthRequests : convert_length_endpoint(r)
    \/ NoHandlerRunning /\ \E r \in MixedWeightRequests : convert_weight_endpoint(r)
    \/ NoHandlerRunning /\ \E r \in MixedTemperatureRequests :
          \E o \in OrdersFor(r) : convert_temperature_endpoint(r, o)

SpecMixed == Init /\ [][NextMixed]_vars

(* ------------------------------- claims -------------------------------- *)

\* The callers blocked in requests.get() after a miss on the key.
InFlight(key) == { c \in Callers : pc[c] = "waiting" /\ frame[c].key = key }

\* The key of the request that completed last.
LastKey == CacheKey(last.from, last.to)

\* The request that completed last went to the provider and got this kind
\* of answer.
LastAnswered(kind) ==
    /\ last.op = "currency"
    /\ ~ last.hit
    /\ last.answer.kind = kind

\* The request that completed last got a 2xx response whose body is a JSON object.
LastGotObject ==
    /\ LastAnswered("response")
    /\ last.answer.status \in 200..299
    /\ last.answer.body.json = "object"

\* C1: in a sequential run, once a call for a normalized pair has
\* succeeded, no later call for that pair issues a provider request: the
\* number of provider requests made for the pair stays what it was.
C1_NoRequestAfterSuccess ==
    [][\A p \in succeeded : requests'[p] = requests[p]]_vars

\* C1 witness: a pair resolved with one provider request, and a later call
\* for it answered from the cache.
C1_Witness ==
    /\ last.op = "currency"
    /\ last.hit
    /\ last.ret.kind = "return"
    /\ <<last.from, last.to>> \in succeeded
    /\ requests[<<last.from, last.to>>] = 1
    /\ writes[LastKey] = 1

\* C2 as stated: once a rate is stored for a key, the stored rate never
\* changes, whatever the interleaving of the calls.
C2_RateNeverChanges ==
    [][\A k \in DOMAIN _CURRENCY_CACHE :
          _CURRENCY_CACHE[k].kind = "number"
          => /\ k \in DOMAIN _CURRENCY_CACHE'
             /\ _CURRENCY_CACHE'[k] = _CURRENCY_CACHE[k]]_vars

\* C2 amended: once a rate is stored for a key, the entry is never removed,
\* no call that looks the key up afterwards goes to the provider, and the
\* stored rate changes only while a call that missed on the key before the
\* rate was stored is still waiting for its answer.
C2_RateFrozenOnceSettled ==
    [][\A k \in DOMAIN _CURRENCY_CACHE :
          /\ k \in DOMAIN _CURRENCY_CACHE'
          /\ InFlight(k)' \subseteq InFlight(k)
          /\ InFlight(k) = {} => _CURRENCY_CACHE'[k] = _CURRENCY_CACHE[k]]_vars

\* C2 witness: a stored rate, no call in flight for its key, and a later
\* call for the key answered from the cache while the provider quotes
\* another rate to another call.
C2_Witness ==
    /\ last.op = "currency"
    /\ last.hit
    /\ LastKey \in DOMAIN _CURRENCY_CACHE
    /\ InFlight(LastKey) = {}
    /\ \E k \in DOMAIN _CURRENCY_CACHE :
          k # LastKey /\ _CURRENCY_CACHE[k] # _CURRENCY_CACHE[LastKey]

\* C3 as stated: no cache key is written more than once.
C3_WrittenAtMostOnce == \A k \in Keys : writes[k] <= 1

\* C3 amended: a key is written once by every call that missed on it before
\* its first write, and by no other call: once written, the writes made
\* and the calls still in flight for the key never exceed the number of
\* concurrent callers.
C3_WrittenOncePerEarlyMiss ==
    \A k \in Keys :
        writes[k] >= 1 => writes[k] + Cardinality(InFlight(k)) <= Cardinality(Callers)

\* C3 witness: two callers missed on the same key before either wrote, and
\* both wrote.
C3_Witness ==
    \E k \in Keys :
        /\ writes[k] = 2
        /\ k \in DOMAIN _CURRENCY_CACHE
        /\ \A c \in Callers : pc[c] = "idle"

\* C4: a caller whose request the provider answers with a rate returns its
\* own amount scaled by that rate, and the cache entry of a key always is
\* one of the rates the provider returned for that key.
C4_OwnRateAndCachedOneOfThem ==
    /\ \A k \in DOMAIN _CURRENCY_CACHE : _CURRENCY_CACHE[k] \in served[k]
    /\ ( /\ LastGotObject
         /\ last.answer.body.rates
         /\ last.to \in DOMAIN last.answer.body.table
         /\ last.answer.body.table[last.to].kind = "number" )
       => /\ last.ret = Returned(RoundDiv(last.value * last.answer.body.table[last.to].milli, 10))
          /\ LastKey \in DOMAIN _CURRENCY_CACHE

\* C4 witness: two callers resolved the same uncached pair at the same
\* time, the provider quoted them different rates, and both have returned.
C4_Witness ==
    /\ \A c \in Callers : pc[c] = "idle"
    /\ LastGotObject
    /\ last.ret.kind = "return"
    /\ writes[LastKey] = 2
    /\ Cardinality(served[LastKey]) = 2
    /\ _CURRENCY_CACHE[LastKey] = last.answer.body.table[last.to]

\* C5: a call whose provider request times out raises the timeout failure
\* (neither the request failure nor the conversion failure) and writes
\* nothing to the cache: a pair that was absent is still absent.
C5_TimeoutRaisesAndCachesNothing ==
    [][\A c \in Callers :
          (pc[c] = "waiting" /\ pc'[c] = "idle" /\ last'.answer.kind = "timeout")
          => /\ last'.ret = Raised(Exc("Exception",
                  <<Lit("Currency API timeout after "), Num(5), Lit("s")>>))
             /\ _CURRENCY_CACHE' = _CURRENCY_CACHE]_vars

\* C5 witness: a timed-out call for a pair that is absent from the cache
\* after the call.
C5_Witness ==
    /\ LastAnswered("timeout")
    /\ last.ret.kind = "raise"
    /\ LastKey \notin DOMAIN _CURRENCY_CACHE

\* The failure kind a caller reads off an exception of get_currency_rate.
\* Every failure is a plain Exception; the kinds differ by the message.
FailureKind(e) ==
    IF e.type # "Exception" \/ Len(e.msg) = 0 THEN "other"
    ELSE IF e.msg[1] = Lit("Currency API timeout after ") THEN "Timeout"
    ELSE IF e.msg[1] = Lit("Currency API request failed: ") THEN "ProviderUnreachable"
    ELSE IF e.msg[1] # Lit("Currency conversion failed: ") \/ Len(e.msg) < 2 THEN "other"
    ELSE IF e.msg[2] = Lit("Invalid API response format") THEN "ProviderFormatError"
    ELSE IF e.msg[2] = Lit("Currency '") THEN "UnknownTargetCurrency"
    ELSE "other"

\* C6: a 2xx response without a rates member makes the call fail with the
\* format failure, one whose rates lack the target code with the
\* unknown-currency failure naming the code; the caller tells the two
\* apart, and apart from the timeout and the request failure.
C6_FormatAndUnknownCurrency ==
    /\ (LastGotObject /\ ~ last.answer.body.rates)
       => /\ last.ret = Raised(Exc("Exception",
                 <<Lit("Currency conversion failed: "), Lit("Invalid API response format")>>))
          /\ FailureKind(last.ret.exc) = "ProviderFormatError"
    /\ (LastGotObject /\ last.answer.body.rates /\ last.to \notin DOMAIN last.answer.body.table)
       => /\ last.ret = Raised(Exc("Exception",
                 <<Lit("Currency conversion failed: "), Lit("Currency '"), Code(last.to),
                   Lit("' not found in exchange rates")>>))
          /\ FailureKind(last.ret.exc) = "UnknownTargetCurrency"
    /\ (LastAnswered("timeout") \/ LastAnswered("transport"))
       => /\ last.ret.kind = "raise"
          /\ FailureKind(last.ret.exc) \in {"Timeout", "ProviderUnreachable"}

\* C6 witness: a call for an uncached pair answered with rates that lack
\* the target code.
C6_Witness ==
    /\ LastGotObject
    /\ last.answer.body.rates
    /\ last.to \notin DOMAIN last.answer.body.table
    /\ FailureKind(last.ret.exc) = "UnknownTargetCurrency"
    /\ LastKey \notin DOMAIN _CURRENCY_CACHE

\* C7 as stated: a response with a status outside 2xx, and a transport
\* error other than a timeout, make the call fail with the request failure.
C7_NonSuccessStatusFails ==
    ( \/ LastAnswered("transport")
      \/ (LastAnswered("response") /\ last.answer.status \notin 200..299) )
    => /\ last.ret.kind = "raise"
       /\ FailureKind(last.ret.exc) = "ProviderUnreachable"

RECURSIVE SumOver(_, _)
SumOver(f, S) ==
    IF S = {} THEN 0
    ELSE LET x == CHOOSE y \in S : TRUE IN f[x] + SumOver(f, S \ {x})

\* C8: a call issues no provider request on a hit and exactly one on a
\* miss, whatever the answer; a call that failed is over (its caller is
\* idle again) after that one request.
C8_OneRequestPerMiss ==
    /\ \A c \in Callers :
          /\ pc[c] = "waiting" => frame[c].nreq = 1
          /\ pc[c] = "idle" => frame[c].nreq = 0
    /\ last.op = "currency" => last.nreq = (IF last.hit THEN 0 ELSE 1)
    /\ SumOver(requests, Pairs) <= calls

\* C8 witness: a call that missed, got a failure from its one request, and
\* is over.
C8_Witness ==
    /\ last.op = "currency"
    /\ ~ last.hit
    /\ last.ret.kind = "raise"
    /\ last.nreq = 1
    /\ requests[<<last.from, last.to>>] = 1
    /\ \A c \in Callers : pc[c] = "idle"

\* The request that completed last named a unit that its table does not hold.
LastInvalidUnit ==
    \/ last.op = "length"
         /\ ~ (HasUnit(LENGTH_FACTORS, last.from) /\ HasUnit(LENGTH_FACTORS, last.to))
    \/ last.op = "weight"
         /\ ~ (HasUnit(WEIGHT_FACTORS, last.from) /\ HasUnit(WEIGHT_FACTORS, last.to))
    \/ last.op = "temperature"
         /\ ~ (last.from \in valid_units /\ last.to \in valid_units)

LastCurrencyFailure(kind) ==
    /\ last.op = "currency"
    /\ last.ret.kind = "raise"
    /\ FailureKind(last.ret.exc) = kind

\* C9 as stated: an invalid unit and an unknown target currency are
\* answered with a 4xx status, a timeout, a request failure and a format
\* failure with a 5xx status.
C9_ClientAndServerErrors ==
    /\ (LastInvalidUnit \/ LastCurrencyFailure("UnknownTargetCurrency"))
       => last.response.status \in 400..499
    /\ ( \/ LastCurrencyFailure("Timeout")
         \/ LastCurrencyFailure("ProviderUnreachable")
         \/ LastCurrencyFailure("ProviderFormatError") )
       => last.response.status \in 500..599

\* C9 amended: an invalid unit is answered with status 400 and the
\* message of the failure; every failure of a currency conversion, the
\* unknown target currency included, is answered with status 500 and the
\* message of the failure.
C9_UnitErrors400CurrencyErrors500 ==
    /\ LastInvalidUnit
       => /\ last.ret.kind = "raise"
          /\ last.response = Response(400, last.ret.exc.msg)
    /\ (last.op = "currency" /\ last.ret.kind = "raise")
       => last.response = Response(500, last.ret.exc.msg)
    /\ last.ret.kind = "return" => last.response.status = 200

\* C9 witness: an unknown target currency answered with status 500.
C9_Witness ==
    /\ LastCurrencyFailure("UnknownTargetCurrency")
    /\ last.response.status = 500

\* The literal pieces of the messages that hold "conversion failed" once
\* lower-cased.
SaysConversionFailed(detail) ==
    \E i \in DOMAIN detail : detail[i].lit \in {"Currency conversion failed: "}

\* C10: a currency request that reaches the provider and gets rates
\* without the target code is answered with status 500 and a detail that
\* holds "conversion failed".
C10_UnknownCurrencyIs500 ==
    (LastGotObject /\ last.answer.body.rates /\ last.to \notin DOMAIN last.answer.body.table)
    => /\ last.response.status = 500
       /\ SaysConversionFailed(last.response.detail)

\* C10 witness: such a request, answered 500 with a detail that names the code.
C10_Witness ==
    /\ LastGotObject
    /\ last.answer.body.rates
    /\ last.to \notin DOMAIN last.answer.body.table
    /\ last.response.status = 500
    /\ \E i \in DOMAIN last.response.detail : last.response.detail[i] = Code(last.to)

\* The text of ', '.join(names), written out position by position.
ListOf(names) ==
    [i \in 1..(2 * Len(names) - 1) |->
        IF i % 2 = 1 THEN Code(names[(i + 1) \div 2]) ELSE Lit(", ")]

NamesOf(names) == { names[i] : i \in DOMAIN names }

\* The keys of the two tables as the source declares them.
DeclaredLengthUnits == <<METER, KILOMETER, CENTIMETER, MILLIMETER, MILE, YARD, FOOT, INCH>>
DeclaredWeightUnits == <<KILOGRAM, GRAM, MILLIGRAM, POUND, OUNCE, TON>>

\* The message of a length or weight conversion refused for one of its units.
InvalidUnitText(side, name, names) ==
    <<Lit("Invalid "), Lit(side), Lit(" unit '"), Code(name), Lit("'. Supported: ")>>
        \o ListOf(names)

RefusedWith(names) ==
    /\ last.ret.kind = "raise"
    /\ last.ret.exc.type = "ValueError"
    /\ last.ret.exc.msg =
          IF last.from \notin NamesOf(names)
          THEN InvalidUnitText("source", last.from, names)
          ELSE InvalidUnitText("target", last.to, names)

\* C11: a length or weight conversion whose lower-cased from_unit or to_unit
\* is no key of the factor table returns no value: it raises the invalid
\* unit error (a ValueError) whose message names the offending side, the
\* source when both are unknown, and lists every unit of the table in
\* declaration order.
C11_InvalidUnitNamesSideAndListsUnits ==
    /\ (last.op = "length" /\ ~ {last.from, last.to} \subseteq NamesOf(DeclaredLengthUnits))
          => RefusedWith(DeclaredLengthUnits)
    /\ (last.op = "weight" /\ ~ {last.from, last.to} \subseteq NamesOf(DeclaredWeightUnits))
          => RefusedWith(DeclaredWeightUnits)

\* A weight request with a known source and an unknown target was refused.
C11_Witness ==
    /\ last.op = "weight"
    /\ last.from = KILOGRAM
    /\ last.to = INVALID_UNIT
    /\ last.ret.kind = "raise"

\* Two names that differ in casing only, and the casings of a request.
SameUpToCase(a, b) ==
    Len(a) = Len(b) /\ \A i \in DOMAIN a : UpperChar(a[i]) = UpperChar(b[i])

Casings(name) == { name, Upper(name), Lower(name) }

Recased(r) == { Req(r.value, f, t) : f \in Casings(r.from), t \in Casings(r.to) }

\* C12: names are case-insensitive. Whatever a unit endpoint does with a
\* request (the value or the error it gives) it does with the same request
\* in any other casing of its two units; whatever get_currency_rate does
\* with a pair of codes (answer from a cache entry, or miss on it, ask the
\* provider and later write it) it does, with the same entry, for the same
\* codes in another casing.
C12_CaseInsensitive ==
    [][ /\ (last' # last /\ last'.op = "length") =>
              \A r \in LengthRequests :
                  convert_length_endpoint(r) =>
                      \A q \in Recased(r) : convert_length_endpoint(q)
        /\ (last' # last /\ last'.op = "weight") =>
              \A r \in WeightRequests :
                  convert_weight_endpoint(r) =>
                      \A q \in Recased(r) : convert_weight_endpoint(q)
        /\ (last' # last /\ last'.op = "temperature") =>
              \A r \in TemperatureRequests : \A o \in OrdersFor(r) :
                  convert_temperature_endpoint(r, o) =>
                      \A q \in Recased(r) : convert_temperature_endpoint(q, o)
        /\ calls' # calls =>
              \A v \in Amounts, f1 \in FromCodes, f2 \in FromCodes, t1 \in ToCodes, t2 \in ToCodes :
              (SameUpToCase(f1, f2) /\ SameUpToCase(t1, t2) /\ Call(1, v, f1, t1))
                  => Call(1, v, f2, t2)
      ]_vars

\* A length written METER and Foot was converted.
C12_Witness ==
    /\ last.op = "length"
    /\ last.from = METER
    /\ last.to = FOOT
    /\ last.ret.kind = "return"
    /\ \A r \in LengthRequests : (Lower(r.from) = METER /\ Lower(r.to) = FOOT) => r.from # METER

\* The factor of a unit as the float its table holds.
FactorOf(table, name) == Decimal(Factor(table, name).num, Factor(table, name).den)

\* value * factor[from] / factor[to] of the last request, rounded to 6
\* decimals, in millionths.
ScaledByFactors(table) ==
    PyRound(FDiv(FMul(Decimal(last.value.num, last.value.den), FactorOf(table, last.from)),
                 FactorOf(table, last.to)), 6)

\* C13: a length (weight) conversion between two units of the table
\* returns value * factor[from] / factor[to] rounded to 6 decimals, the
\* product and the quotient being the float operations of the source;
\* 1000 gram is 1.0 kilogram and 1000 meter is 1.0 kilometer.
C13_ValueTimesFactorOverFactor ==
    /\ (last.op = "length" /\ {last.from, last.to} \subseteq NamesOf(DeclaredLengthUnits)) =>
          /\ last.ret.kind = "return"
          /\ last.ret.amount = ScaledByFactors(LENGTH_FACTORS)
    /\ (last.op = "weight" /\ {last.from, last.to} \subseteq NamesOf(DeclaredWeightUnits)) =>
          /\ last.ret.kind = "return"
          /\ last.ret.amount = ScaledByFactors(WEIGHT_FACTORS)
    /\ (last.op = "weight" /\ last.value = Dec(1000, 1) /\ last.from = GRAM /\ last.to = KILOGRAM)
          => last.ret = Returned(1000000)
    /\ (last.op = "length" /\ last.value = Dec(1000, 1) /\ last.from = METER /\ last.to = KILOMETER)
          => last.ret = Returned(1000000)

\* 1000 gram were converted to kilogram.
C13_Witness ==
    /\ last.op = "weight"
    /\ last.value = Dec(1000, 1)
    /\ last.from = GRAM
    /\ last.to = KILOGRAM
    /\ last.ret.kind = "return"

\* C14: a length converted to its own unit is round(value, 6), for every
\* value and every unit of the table.
C14_SameUnitIsRoundedValue ==
    (last.op = "length" /\ last.from = last.to /\ last.ret.kind = "return")
        => last.ret.amount = PyRound(Decimal(last.value.num, last.value.den), 6)

\* A step that sends the length just returned back the other way.
SentBack ==
    /\ last.op = "length"
    /\ last.ret.kind = "return"
    /\ last'.op = "length"
    /\ last'.ret.kind = "return"
    /\ last'.value = Dec(last.ret.amount, 1000000)
    /\ last'.from = last.to
    /\ last'.to = last.from

BigAbsDiff(x, y) == IF BigCmp(x, y) >= 0 THEN BigSub(x, y) ELSE BigSub(y, x)

\* The distance between the length that came back and the length sent
\* first, in millionths of the first unit and times the denominator of the
\* value sent first.
RoundTripError ==
    BigAbsDiff(BigMul(Limbs(last'.ret.amount), Limbs(last.value.den)),
               BigMul(Limbs(last.value.num), Limbs(1000000)))

\* The tolerance the test suite uses for converted lengths: 0.01
Hundredth == 10000

ToCelsius(x, unit) ==
    IF unit = FAHRENHEIT THEN FDiv(FMul(FSub(x, FromInt(32)), FromInt(5)), FromInt(9))
    ELSE IF unit = KELVIN THEN FSub(x, Decimal(27315, 100))
    ELSE x

FromCelsius(c, unit) ==
    IF unit = FAHRENHEIT THEN FAdd(FDiv(FMul(c, FromInt(9)), FromInt(5)), FromInt(32))
    ELSE IF unit = KELVIN THEN FAdd(c, Decimal(27315, 100))
    ELSE c

LastTemperature(value, from, to) ==
    /\ last.op = "temperature"
    /\ last.value = value
    /\ last.from = from
    /\ last.to = to

\* C16: between two different temperature units convert_temperature
\* returns the standard formula rounded to 2 decimals (F = C * 9/5 + 32,
\* K = C + 273.15, their inverses, Fahrenheit and Kelvin through Celsius);
\* 0 celsius is 32.0 fahrenheit, 273.15 kelvin is 0.0 celsius and
\* -40 celsius is -40.0 fahrenheit.
C16_StandardFormulaRounded ==
    /\ (last.op = "temperature" /\ {last.from, last.to} \subseteq valid_units
            /\ last.from # last.to) =>
          /\ last.ret.kind = "return"
          /\ last.ret.amount =
                PyRound(FromCelsius(ToCelsius(Decimal(last.value.num, last.value.den),
                                              last.from), last.to), 2)
    /\ LastTemperature(Dec(0, 1), CELSIUS, FAHRENHEIT) => last.ret = Returned(3200)
    /\ LastTemperature(Dec(27315, 100), KELVIN, CELSIUS) => last.ret = Returned(0)
    /\ LastTemperature(Dec(-40, 1), CELSIUS, FAHRENHEIT) => last.ret = Returned(-4000)

\* 36.6 fahrenheit were converted to kelvin.
C16_Witness ==
    /\ LastTemperature(Dec(366, 10), FAHRENHEIT, KELVIN)
    /\ last.ret.kind = "return"

\* C17: a temperature converted to its own unit is round(value, 2): no
\* formula is applied to it.
C17_SameUnitIsRoundedValue ==
    (last.op = "temperature" /\ last.from \in valid_units /\ last.from = last.to)
        => last.ret = Returned(PyRound(Decimal(last.value.num, last.value.den), 2))

\* 2.675 kelvin were converted to kelvin: 2.67, the float lying below the tie.
C17_Witness ==
    /\ LastTemperature(Dec(2675, 1000), KELVIN, KELVIN)
    /\ last.ret = Returned(267)

\* value * rate to the nearest hundredth (a tie to the even one), the rate
\* counting thousandths.
NearestHundredths(value, milli) ==
    LET tenths == value * milli
        below  == tenths \div 10
        rest   == tenths % 10
    IN  IF rest < 5 THEN below
        ELSE IF rest > 5 THEN below + 1
        ELSE below + (below % 2)

\* The rate the provider's answer to the last call quotes for its target.
QuotedRate == last.answer.body.table[last.to]

\* C18: a successful get_currency_rate returns value * rate rounded to 2
\* decimals. On a miss the rate is the one the provider quotes for the
\* target code, and it is what the cache holds afterwards; on a hit it is
\* the entry of the cache, a rate the provider quoted for that key, whatever
\* value the call that cached it converted.
C18_ValueTimesRateRounded ==
    (last.op = "currency" /\ last.ret.kind = "return") =>
        IF last.hit
        THEN /\ LastKey \in DOMAIN _CURRENCY_CACHE
             /\ _CURRENCY_CACHE[LastKey] \in served[LastKey]
             /\ _CURRENCY_CACHE[LastKey].kind = "number"
             /\ last.ret.amount = NearestHundredths(last.value, _CURRENCY_CACHE[LastKey].milli)
        ELSE /\ last.to \in DOMAIN last.answer.body.table
             /\ QuotedRate.kind = "number"
             /\ QuotedRate \in served[LastKey]
             /\ last.ret.amount = NearestHundredths(last.value, QuotedRate.milli)

\* The second call converted 1 on a hit: the cache holds the rate 3.127 and
\* the call returned 3.13.
C18_Witness ==
    /\ calls = 2
    /\ last.op = "currency"
    /\ last.hit
    /\ last.value = 1
    /\ _CURRENCY_CACHE[LastKey] = Number(3127)
    /\ last.ret = Returned(313)

\* C19: the body GET / returns has the version "1.0.0".
C19_RootVersionIs100 ==
    last.op = "root" => last.response.detail.version = "1.0.0"

\* C20: the cache is keyed by the ordered pair of upper-cased codes, and no
\* other pair maps to the entry of a pair: an amount converted with a
\* cached rate is converted with the rate a call for the same pair of
\* codes stored, so the provider has been asked for that pair before.
C20_EntryOfItsOwnPair ==
    (last.op = "currency" /\ last.hit /\ last.ret.kind = "return")
        => requests[<<last.from, last.to>>] > 0

UnitOps == { "length", "weight", "temperature" }

\* C21: the unit conversions have no side effects. A step that answers a
\* length, weight or temperature request, with a value or with an error,
\* leaves the currency cache and both factor tables as they were; no step
\* at all changes the factor tables, and the cache changes only by the
\* insert of a currency call returning from the provider, at its own key.
C21_UnitConversionsWriteNothing ==
    [][ /\ (last' # last /\ last'.op \in UnitOps) =>
              /\ _CURRENCY_CACHE' = _CURRENCY_CACHE
              /\ factors' = factors
        /\ factors' = factors
        /\ _CURRENCY_CACHE' # _CURRENCY_CACHE =>
              /\ last'.op = "currency"
              /\ ~ last'.hit
              /\ \E c \in Callers : pc[c] = "waiting" /\ pc'[c] = "idle"
              /\ \A k \in DOMAIN _CURRENCY_CACHE :
                    k # CacheKey(last'.from, last'.to) =>
                        /\ k \in DOMAIN _CURRENCY_CACHE'
                        /\ _CURRENCY_CACHE'[k] = _CURRENCY_CACHE[k]
              /\ DOMAIN _CURRENCY_CACHE' =
                    DOMAIN _CURRENCY_CACHE \cup {CacheKey(last'.from, last'.to)}
      ]_vars

\* A weight request was refused while the cache held a rate.
C21_Witness ==
    /\ _CURRENCY_CACHE # << >>
    /\ last.op = "weight"
    /\ last.ret.kind = "raise"
    /\ factors = [length |-> LENGTH_FACTORS, weight |-> WEIGHT_FACTORS]

\* A step in which a call of get_currency_rate ends: it returns from the
\* provider request, or it is answered from the cache.
CallEnds ==
    \/ \E c \in Callers : pc[c] = "waiting" /\ pc'[c] = "idle"
    \/ calls' # calls /\ pc' = pc

\* C22: a call of get_currency_rate that ends in a failure, whatever the
\* cause, leaves the cache exactly as it was.
C22_FailureLeavesCacheAlone ==
    [][ (CallEnds /\ last'.op = "currency" /\ last'.ret.kind = "raise")
            => _CURRENCY_CACHE' = _CURRENCY_CACHE ]_vars

\* C23: once a pair has an entry in the cache, a call for it never goes to
\* the provider, so none of the provider's failures can reach it, and it
\* returns a converted value.
C23_CachedPairAlwaysSucceeds ==
    [][ calls' # calls =>
          /\ \A c \in Callers :
                (pc[c] = "idle" /\ pc'[c] = "waiting") => ~ InCache(frame'[c].key)
          /\ (pc' = pc) =>
                /\ last'.hit
                /\ InCache(CacheKey(last'.from, last'.to))
                /\ last'.ret.kind = "return" ]_vars

====
